---- MODULE Spec2Model ----
(***************************************************************************)
(* Quiz_WebApp: the quiz submission and scoring workflow.                  *)
(*                                                                         *)
(* The store is the set of MongoDB collections (Quiz, Class,               *)
(* StudentResponse, StudentResult).  A submit request                      *)
(* (POST /:classId/quizzes/:quizId/responses) is an async handler: it      *)
(* runs from one await to the next, and other requests run in between.     *)
(* Each await of the handler is one action below.                          *)
(*                                                                         *)
(* Time is counted in minutes of local time.  Date.getMinutes() is the     *)
(* minute of the hour, Date.setMinutes(v) replaces the minute of the hour  *)
(* of the date it is called on by v (carrying into the hours).             *)
(***************************************************************************)
EXTENDS Integers, Sequences, FiniteSets, TLC

VARIABLES
    now,               \* the wall clock, in minutes
    quizzes,           \* Quiz collection: quiz id -> document
    classes,           \* Class collection: class id -> document
    studentResponses,  \* StudentResponse collection, in insertion order
    studentResults,    \* StudentResult collection, in insertion order
    reqs,              \* the submit requests being handled, one per slot
    committed,         \* (student, quiz) pairs of finished requests whose StudentResponse is stored
    probe,             \* inputs and outcome of one evaluation of the window check
    resp,              \* the last answer of a read handler (quiz detail, results, csv)
    rosterReqs,        \* the roster requests being handled (add-student, join, remove-student)
    quizReq            \* the quiz create / update request being handled

others == <<resp, rosterReqs, quizReq>>

vars == <<now, quizzes, classes, studentResponses, studentResults, reqs, committed, probe,
          resp, rosterReqs, quizReq>>

store == <<quizzes, classes, studentResponses, studentResults>>

----------------------------------------------------------------------------
(* Bounds *)

MaxReq == 2          \* request slots: requests that may be in flight together
MaxTime == 75        \* the clock stops here
TickStep == 15       \* the clock advances in steps of this many minutes
MaxStart == 3        \* window probe: start_date ranges over 0..MaxStart and the hour after
MaxDuration == 2     \* window probe: duration ranges over 0..MaxDuration
MaxProbeTime == 125  \* window probe: now ranges over 0..MaxProbeTime
MaxBatch == 3        \* responses in a submitted body

MinutesPerHour == 60

Slots == 1..MaxReq

----------------------------------------------------------------------------
(* Identities *)

Students == {"s1", "s2"}
Teachers == {"t1", "t2"}
Callers == [id : Students, role : {"student"}] \cup [id : Teachers, role : {"teacher"}]
QuizIds == {"k1", "k2"}

----------------------------------------------------------------------------
(* Quiz documents *)

Option(id, is_correct) == [id |-> id, is_correct |-> is_correct]
Question(id, options) == [id |-> id, options |-> options]

\* result of Quiz.findById when no document has the id
NullQuiz == [found |-> FALSE, class_id |-> "", start_date |-> 0, duration |-> 0, questions |-> <<>>]

QuizDoc(class_id, start_date, duration, questions) ==
    [found |-> TRUE, class_id |-> class_id, start_date |-> start_date,
     duration |-> duration, questions |-> questions]

\* Q1 has one correct option, Q2 has two
SampleQuestions ==
    << Question("q1", <<Option("o1", TRUE), Option("o2", FALSE)>>),
       Question("q2", <<Option("o3", TRUE), Option("o4", TRUE)>>) >>

findById(quizId) == IF quizId \in DOMAIN quizzes THEN quizzes[quizId] ELSE NullQuiz

----------------------------------------------------------------------------
(* Quiz scheduling window *)

\* endDate = new Date(); endDate.setMinutes(quiz.start_date.getMinutes() + quiz.duration)
endDate(currentDate, start_date, duration) ==
    (currentDate - (currentDate % MinutesPerHour))
        + ((start_date % MinutesPerHour) + duration)

windowStateSubmitStrict(currentDate, start_date, duration) ==
    IF currentDate > start_date /\ currentDate > endDate(currentDate, start_date, duration)
    THEN "ENDED"
    ELSE IF currentDate <= start_date THEN "NOT_STARTED" ELSE "ACTIVE"

\* the two window tests of the submit handler, in their order
windowStateSubmit(currentDate, start_date, duration) ==
    IF currentDate > start_date /\ currentDate > endDate(currentDate, start_date, duration)
    THEN "ENDED"
    ELSE IF currentDate < start_date THEN "NOT_STARTED" ELSE "ACTIVE"

windowStateViewStrict(currentDate, start_date, duration) ==
    IF currentDate > start_date /\ currentDate > endDate(currentDate, start_date, duration)
    THEN "ENDED"
    ELSE IF currentDate <= start_date THEN "NOT_STARTED" ELSE "ACTIVE"

\* the two window tests of the view handler (student caller), in their order
windowStateView(currentDate, start_date, duration) ==
    IF currentDate > start_date /\ currentDate > endDate(currentDate, start_date, duration)
    THEN "ENDED"
    ELSE IF currentDate < start_date THEN "NOT_STARTED" ELSE "ACTIVE"

----------------------------------------------------------------------------
(* Submitted responses *)

\* selected_options as received: an array of option ids, a value that is not
\* an array, or nothing
Selected(items) == [kind |-> "array", items |-> items]
ScalarSelected == [kind |-> "scalar", items |-> <<>>]
MissingSelected == [kind |-> "missing", items |-> <<>>]

Response(question_id, selected_options) ==
    [question_id |-> question_id, selected_options |-> selected_options]

\* req.body.responses: iterable or not (undefined)
Body(items) == [iterable |-> TRUE, items |-> items]
NoBody == [iterable |-> FALSE, items |-> <<>>]

\* !question_id || !selected_options || !Array.isArray(selected_options)
InvalidFormat(response) ==
    \/ response.question_id = ""
    \/ response.selected_options.kind = "missing"
    \/ response.selected_options.kind # "array"

\* only the first entry validated
HasInvalidFormatFirst(items) == items # <<>> /\ InvalidFormat(items[1])

\* the validation loop returns 400 at the first invalid entry
HasInvalidFormat(items) == \E i \in 1..Len(items) : InvalidFormat(items[i])

----------------------------------------------------------------------------
(* Scoring *)

RECURSIVE CorrectIds(_)
\* question.options.filter(option => option.is_correct).map(option => option._id.toString())
CorrectIds(options) ==
    IF options = <<>> THEN <<>>
    ELSE (IF Head(options).is_correct THEN <<Head(options).id>> ELSE <<>>)
            \o CorrectIds(Tail(options))

correctResponses(quiz) ==
    [i \in 1..Len(quiz.questions) |->
        [question_id |-> quiz.questions[i].id,
         selected_options |-> CorrectIds(quiz.questions[i].options)]]

\* the two arrays compared as sets of ids
arraysEqualAsSets(arr1, arr2) ==
    {arr1[i] : i \in 1..Len(arr1)} = {arr2[i] : i \in 1..Len(arr2)}

arraysEqual(arr1, arr2) ==
    IF Len(arr1) # Len(arr2) THEN FALSE
    ELSE \A i \in 1..Len(arr1) : arr1[i] = arr2[i]

\* correctResponses.find(response => response.question_id === question_id):
\* index of the first match, 0 when there is none
RECURSIVE FindFrom(_, _, _)
FindFrom(correct, question_id, i) ==
    IF i > Len(correct) THEN 0
    ELSE IF correct[i].question_id = question_id THEN i
    ELSE FindFrom(correct, question_id, i + 1)

RECURSIVE ScoreFrom(_, _, _)
\* the forEach over submittedResponses, from entry i on
ScoreFrom(correct, submitted, i) ==
    IF i > Len(submitted) THEN 0
    ELSE LET j == FindFrom(correct, submitted[i].question_id, 1)
             isCorrect == j # 0 /\ arraysEqual(correct[j].selected_options,
                                               submitted[i].selected_options.items)
         IN (IF isCorrect THEN 1 ELSE 0) + ScoreFrom(correct, submitted, i + 1)

\* a score that carries over from the results already stored
calculateResultsShared(correct, submitted) ==
    Len(studentResults) + ScoreFrom(correct, submitted, 1)

\* the score calculateResults computes and returns
calculateResults(correct, submitted) == ScoreFrom(correct, submitted, 1)

\* const numberOfQuestions = quiz.questions.length
numberOfQuestions(quiz) == Len(quiz.questions)

\* new StudentResponse({student_id, quiz_id: quizId, responses: allResponses})
studentResponseinfo(student_id, quizId, allResponses) ==
    [student_id |-> student_id, quiz_id |-> quizId, responses |-> allResponses]

\* out_of filled with the score
studentResultOutOfScore(studentId, quizId, score, out_of) ==
    [student_id |-> studentId, quiz_id |-> quizId, score |-> score, out_of |-> score]

\* new StudentResult({student_id, quiz_id, score, out_of: numberOfQuestions})
\* (submitted_at, which no modelled operation reads, is left out)
studentResult(studentId, quizId, score, out_of) ==
    [student_id |-> studentId, quiz_id |-> quizId, score |-> score, out_of |-> out_of]

----------------------------------------------------------------------------
(* Requests *)

Idle ==
    [pc |-> "idle", caller |-> [id |-> "", role |-> ""], student_id |-> "",
     quizId |-> "", responses |-> NoBody, quiz |-> NullQuiz, currentDate |-> 0,
     kind |-> "", score |-> 0, out_of |-> 0, wrote |-> 0, after |-> FALSE]

\* the handler sends its answer and ends
Answer(r, kind) == [reqs[r] EXCEPT !.pc = "done", !.kind = kind]

\* the lookup filtered by the class id in place of the quiz id
isStudentTakeExamByClass(student_id, quizId) ==
    \E i \in 1..Len(studentResponses) :
        /\ studentResponses[i].student_id = student_id
        /\ studentResponses[i].quiz_id = findById(quizId).class_id

\* StudentResponse.findOne({student_id, quiz_id})
isStudentTakeExam(student_id, quizId) ==
    \E i \in 1..Len(studentResponses) :
        /\ studentResponses[i].student_id = student_id
        /\ studentResponses[i].quiz_id = quizId

----------------------------------------------------------------------------
(* POST /:classId/quizzes/:quizId/responses *)

\* The request arrives: role check, then Quiz.findById(quizId).
SubmitBegin(r, caller, student_id, quizId, responses) ==
    /\ reqs[r].pc = "idle"
    /\ LET req == [Idle EXCEPT !.caller = caller, !.student_id = student_id,
                               !.quizId = quizId, !.responses = responses,
                               !.after = (<<student_id, quizId>> \in committed)]
       IN reqs' = [reqs EXCEPT ![r] =
                    IF caller.role # "student"
                    THEN [req EXCEPT !.pc = "done", !.kind = "Forbidden"]
                    ELSE [req EXCEPT !.pc = "window", !.quiz = findById(quizId)]]
    /\ UNCHANGED <<now, store, committed, probe, others>>

\* endDate and currentDate are taken, quiz.start_date is read before the
\* null test (a TypeError when quiz is null, answered 500 by the catch),
\* then the window tests.
SubmitWindow(r) ==
    /\ reqs[r].pc = "window"
    /\ LET req == [reqs[r] EXCEPT !.currentDate = now]
           quiz == req.quiz
           state == windowStateSubmit(now, quiz.start_date, quiz.duration)
       IN reqs' = [reqs EXCEPT ![r] =
                    IF ~quiz.found THEN [req EXCEPT !.pc = "done", !.kind = "InternalFailure"]
                    ELSE IF state = "ENDED" THEN [req EXCEPT !.pc = "done", !.kind = "QuizEnded"]
                    ELSE IF state = "NOT_STARTED"
                         THEN [req EXCEPT !.pc = "done", !.kind = "QuizNotStarted"]
                    ELSE [req EXCEPT !.pc = "find"]]
    /\ UNCHANGED <<now, store, committed, probe, others>>

\* the entries before the first invalid one
RECURSIVE ValidPrefix(_)
ValidPrefix(items) ==
    IF items = <<>> \/ InvalidFormat(Head(items)) THEN <<>>
    ELSE <<Head(items)>> \o ValidPrefix(Tail(items))

\* each entry stored as soon as it is validated, the 400 sent at the first invalid one
SubmitFindStoreFirst(r) ==
    /\ reqs[r].pc = "find"
    /\ LET req == reqs[r]
           rejected == ~isStudentTakeExam(req.student_id, req.quizId)
                         /\ req.responses.iterable
                         /\ HasInvalidFormat(req.responses.items)
       IN /\ reqs' = [reqs EXCEPT ![r] =
                    IF isStudentTakeExam(req.student_id, req.quizId)
                    THEN [req EXCEPT !.pc = "done", !.kind = "AlreadySubmitted"]
                    ELSE IF ~req.responses.iterable
                         THEN [req EXCEPT !.pc = "done", !.kind = "InternalFailure"]
                    ELSE IF HasInvalidFormat(req.responses.items)
                         THEN [req EXCEPT !.pc = "done", !.kind = "MalformedResponse",
                                          !.wrote = req.wrote + 1]
                    ELSE [req EXCEPT !.pc = "saveResponse"]]
          /\ studentResponses' =
                IF rejected
                THEN Append(studentResponses,
                        studentResponseinfo(req.student_id, req.quizId,
                                            ValidPrefix(req.responses.items)))
                ELSE studentResponses
    /\ UNCHANGED <<now, quizzes, classes, studentResults, committed, probe, others>>

\* StudentResponse.findOne, the duplicate test, then the format loop
\* (for..of over a body that is not iterable is a TypeError, answered 500).
SubmitFind(r) ==
    /\ reqs[r].pc = "find"
    /\ LET req == reqs[r]
       IN reqs' = [reqs EXCEPT ![r] =
                    IF isStudentTakeExam(req.student_id, req.quizId)
                    THEN [req EXCEPT !.pc = "done", !.kind = "AlreadySubmitted"]
                    ELSE IF ~req.responses.iterable
                         THEN [req EXCEPT !.pc = "done", !.kind = "InternalFailure"]
                    ELSE IF HasInvalidFormat(req.responses.items)
                         THEN [req EXCEPT !.pc = "done", !.kind = "MalformedResponse"]
                    ELSE [req EXCEPT !.pc = "saveResponse"]]
    /\ UNCHANGED <<now, store, committed, probe, others>>

\* a failed save of the StudentResponse swallowed: the handler goes on
SubmitSaveResponseSwallow(r, ok) ==
    /\ reqs[r].pc = "saveResponse"
    /\ LET req == reqs[r]
       IN /\ studentResponses' =
                IF ok THEN Append(studentResponses,
                            studentResponseinfo(req.student_id, req.quizId, req.responses.items))
                ELSE studentResponses
          /\ reqs' = [reqs EXCEPT ![r] =
                    [req EXCEPT !.pc = "saveResult",
                                !.wrote = IF ok THEN req.wrote + 1 ELSE req.wrote,
                                !.out_of = numberOfQuestions(req.quiz),
                                !.score = calculateResults(correctResponses(req.quiz),
                                                           req.responses.items)]]
    /\ UNCHANGED <<now, quizzes, classes, studentResults, committed, probe, others>>

\* studentResponseinfo.save(); on success the score is computed and the
\* StudentResult built; a failed save is answered 500.
SubmitSaveResponse(r, ok) ==
    /\ reqs[r].pc = "saveResponse"
    /\ LET req == reqs[r]
       IN IF ok
          THEN /\ studentResponses' = Append(studentResponses,
                    studentResponseinfo(req.student_id, req.quizId, req.responses.items))
               /\ reqs' = [reqs EXCEPT ![r] =
                    [req EXCEPT !.pc = "saveResult", !.wrote = req.wrote + 1,
                                !.out_of = numberOfQuestions(req.quiz),
                                !.score = calculateResults(correctResponses(req.quiz),
                                                           req.responses.items)]]
          ELSE /\ reqs' = [reqs EXCEPT ![r] =
                    [req EXCEPT !.pc = "done", !.kind = "InternalFailure"]]
               /\ UNCHANGED studentResponses
    /\ UNCHANGED <<now, quizzes, classes, studentResults, committed, probe, others>>

\* a failed save of the StudentResult swallowed: the 200 answer is sent
SubmitSaveResultSwallow(r, ok) ==
    /\ reqs[r].pc = "saveResult"
    /\ LET req == reqs[r]
       IN /\ studentResults' =
                IF ok THEN Append(studentResults,
                            studentResult(req.student_id, req.quizId, req.score, req.out_of))
                ELSE studentResults
          /\ reqs' = [reqs EXCEPT ![r] =
                    [req EXCEPT !.pc = "done", !.kind = "Success",
                                !.wrote = IF ok THEN req.wrote + 1 ELSE req.wrote]]
    /\ committed' = committed \cup {<<reqs[r].student_id, reqs[r].quizId>>}
    /\ UNCHANGED <<now, quizzes, classes, studentResponses, probe, others>>

\* studentResult.save() inside calculateResults, then the 200 answer with
\* score and out_of; a failed save is answered 500.
SubmitSaveResult(r, ok) ==
    /\ reqs[r].pc = "saveResult"
    /\ LET req == reqs[r]
       IN IF ok
          THEN /\ studentResults' = Append(studentResults,
                    studentResult(req.student_id, req.quizId, req.score, req.out_of))
               /\ reqs' = [reqs EXCEPT ![r] =
                    [req EXCEPT !.pc = "done", !.kind = "Success", !.wrote = req.wrote + 1]]
          ELSE /\ reqs' = [reqs EXCEPT ![r] =
                    [req EXCEPT !.pc = "done", !.kind = "InternalFailure",
                                !.score = 0, !.out_of = 0]]
               /\ UNCHANGED studentResults
    /\ committed' = committed \cup {<<reqs[r].student_id, reqs[r].quizId>>}
    /\ UNCHANGED <<now, quizzes, classes, studentResponses, probe, others>>

\* the answer has been sent; the slot takes the next request
Finish(r) ==
    /\ reqs[r].pc = "done"
    /\ reqs' = [reqs EXCEPT ![r] = Idle]
    /\ UNCHANGED <<now, store, committed, probe, others>>

Tick ==
    /\ now + TickStep <= MaxTime
    /\ now' = now + TickStep
    /\ UNCHANGED <<store, reqs, committed, probe, others>>

----------------------------------------------------------------------------
(* Window probe: one evaluation of the window tests of either handler *)

NoProbe ==
    [start_date |-> 0, duration |-> 0, now |-> 0, site |-> "none", state |-> "none",
     second |-> "none"]

ClassifySubmit ==
    /\ probe.site = "none"
    /\ probe' = [probe EXCEPT !.site = "submit",
                    !.state = windowStateSubmit(probe.now, probe.start_date, probe.duration)]
    /\ UNCHANGED <<now, store, reqs, committed, others>>

ClassifyView ==
    /\ probe.site = "none"
    /\ probe' = [probe EXCEPT !.site = "view",
                    !.state = windowStateView(probe.now, probe.start_date, probe.duration)]
    /\ UNCHANGED <<now, store, reqs, committed, others>>

\* the same inputs given to the window tests of the other handler
ClassifyAgain ==
    /\ probe.site # "none"
    /\ probe.second = "none"
    /\ probe' = [probe EXCEPT !.second =
                    IF probe.site = "submit"
                    THEN windowStateView(probe.now, probe.start_date, probe.duration)
                    ELSE windowStateSubmit(probe.now, probe.start_date, probe.duration)]
    /\ UNCHANGED <<now, store, reqs, committed, others>>

----------------------------------------------------------------------------
(* Read handlers *)

\* a Class document: students is an array of ids, quizzes the embedded quiz
\* entries (by id), v the version key __v
ClassDoc(teacher_id, students, quizIds) ==
    [teacher_id |-> teacher_id, students |-> students, quizzes |-> quizIds, v |-> 0]

ClassIds == {"c1", "c2", "cx"}

\* an answer: the handler, its caller and parameters, the kind of answer, the
\* quiz or the results sent with a success; at and attempts record the clock
\* and the number of StudentResponses of (caller, quiz) when it was sent
Resp(op, caller, classId, quizId, kind, quiz, results) ==
    [op |-> op, caller |-> caller, classId |-> classId, quizId |-> quizId,
     kind |-> kind, quiz |-> quiz, results |-> results, at |-> now,
     attempts |-> Cardinality({i \in 1..Len(studentResponses) :
                    /\ studentResponses[i].student_id = caller.id
                    /\ studentResponses[i].quiz_id = quizId})]

NoResp ==
    [op |-> "none", caller |-> [id |-> "", role |-> ""], classId |-> "", quizId |-> "",
     kind |-> "", quiz |-> NullQuiz, results |-> <<>>, at |-> 0, attempts |-> 0]

\* Array.prototype.includes on an array of ids
Includes(array, id) == \E i \in 1..Len(array) : array[i] = id

\* myClass.teacher_id.equals(decoded.id) || myClass.students.includes(decoded.id)
isTeacherOrStudentInClass(myClass, decoded) ==
    myClass.teacher_id = decoded.id \/ Includes(myClass.students, decoded.id)

\* the answer of GET /:classId/quizzes/:quizId
ViewKind(decoded, classId, quizId) ==
    LET quiz == findById(quizId)
        state == windowStateView(now, quiz.start_date, quiz.duration)
    IN  IF decoded.role # "teacher" /\ decoded.role # "student" THEN "Forbidden"
        ELSE IF classId \notin DOMAIN classes THEN "ClassNotFound"
        ELSE IF ~isTeacherOrStudentInClass(classes[classId], decoded) THEN "Forbidden"
        ELSE IF ~quiz.found THEN "QuizNotFound"
        ELSE IF decoded.role # "student" THEN "Success"
        ELSE IF state = "ENDED" THEN "QuizEnded"
        ELSE IF state = "NOT_STARTED" THEN "QuizNotStarted"
        ELSE IF isStudentTakeExam(decoded.id, quizId) THEN "AlreadySubmitted"
        ELSE "Success"

\* GET /:classId/quizzes/:quizId: res.json({ quiz }) sends the stored document
ViewQuiz(decoded, classId, quizId) ==
    /\ LET kind == ViewKind(decoded, classId, quizId)
       IN resp' = Resp("view", decoded, classId, quizId, kind,
                       IF kind = "Success" THEN findById(quizId) ELSE NullQuiz, <<>>)
    /\ UNCHANGED <<now, store, reqs, committed, probe, rosterReqs, quizReq>>

\* StudentResult.find({ quiz_id: quizId })
RECURSIVE FindResults(_, _)
FindResults(results, quizId) ==
    IF results = <<>> THEN <<>>
    ELSE (IF Head(results).quiz_id = quizId THEN <<Head(results)>> ELSE <<>>)
            \o FindResults(Tail(results), quizId)

\* the tests of GET /:classId/quizzes/:quizId/results, in their order
ResultsKind(decoded, classId, quizId) ==
    LET quiz == findById(quizId)
    IN  IF decoded.role # "teacher" THEN "Forbidden"
        ELSE IF ~quiz.found THEN "QuizNotFound"
        ELSE IF quiz.class_id # classId THEN "Forbidden"
        ELSE "Success"

\* GET /:classId/quizzes/:quizId/results
GetResults(decoded, classId, quizId) ==
    /\ LET kind == ResultsKind(decoded, classId, quizId)
       IN resp' = Resp("results", decoded, classId, quizId, kind, NullQuiz,
                       IF kind = "Success" THEN FindResults(studentResults, quizId) ELSE <<>>)
    /\ UNCHANGED <<now, store, reqs, committed, probe, rosterReqs, quizReq>>

\* the tests of GET /:classId/quizzes/:quizId/csvresults, in their order
CsvResultsKind(decoded, classId, quizId) ==
    LET quiz == findById(quizId)
    IN  IF decoded.role # "teacher" THEN "Forbidden"
        ELSE IF ~quiz.found THEN "QuizNotFound"
        ELSE IF quiz.class_id # classId THEN "Forbidden"
        ELSE IF classId \notin DOMAIN classes THEN "ClassNotFound"
        ELSE "Success"

\* GET /:classId/quizzes/:quizId/csvresults
GetCsvResults(decoded, classId, quizId) ==
    /\ LET kind == CsvResultsKind(decoded, classId, quizId)
       IN resp' = Resp("csvresults", decoded, classId, quizId, kind, NullQuiz,
                       IF kind = "Success" THEN FindResults(studentResults, quizId) ELSE <<>>)
    /\ UNCHANGED <<now, store, reqs, committed, probe, rosterReqs, quizReq>>

\* GET /:classId/quizzes/:quizId/results/:studentId: StudentResult.findOne of
\* (studentId, quizId), the first one stored; results holds the document
\* found, of which score and out_of are sent.  The caller is not tested.
GetStudentResult(decoded, classId, studentId, quizId) ==
    /\ LET found == {i \in 1..Len(studentResults) :
                        /\ studentResults[i].student_id = studentId
                        /\ studentResults[i].quiz_id = quizId}
           first == CHOOSE i \in found : \A j \in found : i <= j
       IN resp' = IF found = {}
                  THEN Resp("result", decoded, classId, quizId, "ResultNotFound",
                            NullQuiz, <<>>)
                  ELSE Resp("result", decoded, classId, quizId, "Success", NullQuiz,
                            << studentResults[first] >>)
    /\ UNCHANGED <<now, store, reqs, committed, probe, rosterReqs, quizReq>>

\* PATCH /update: findByIdAndUpdate on the Teacher or Student document of the
\* caller; no collection of the store is written
UpdateUser(decoded) ==
    /\ resp' = Resp("update", decoded, "", "", "Success", NullQuiz, <<>>)
    /\ UNCHANGED <<now, store, reqs, committed, probe, rosterReqs, quizReq>>

----------------------------------------------------------------------------
(* Roster handlers *)

\* a class document takes at most this many writes
MaxWrites == 3

StudentIds == Students \cup {"sx"}       \* "sx": the id of no stored student

\* a roster request: the handler, its parameters, and the class document it
\* read (existingClass), which it changes in memory and then saves
RosterIdle ==
    [pc |-> "idle", op |-> "none", classId |-> "", studentId |-> "",
     existingClass |-> ClassDoc("", <<>>, <<>>), kind |-> ""]

RosterAnswer(op, kind) == [RosterIdle EXCEPT !.pc = "done", !.op = op, !.kind = kind]

RosterLoaded(op, classId, studentId) ==
    [pc |-> "save", op |-> op, classId |-> classId, studentId |-> studentId,
     existingClass |-> classes[classId], kind |-> ""]

\* existingClass.students.indexOf(studentId): 0 stands for -1
RECURSIVE IndexFrom(_, _, _)
IndexFrom(array, id, i) ==
    IF i > Len(array) THEN 0
    ELSE IF array[i] = id THEN i
    ELSE IndexFrom(array, id, i + 1)

indexOf(array, id) == IndexFrom(array, id, 1)

\* existingClass.students.splice(studentIndex, 1)
splice(array, studentIndex) ==
    [i \in 1..(Len(array) - 1) |-> IF i < studentIndex THEN array[i] ELSE array[i + 1]]

\* POST /:classId/add-student up to the push: the role, class, owner and
\* student tests; the pushed id is not compared with the ids in the list
AddStudentBegin(r, decoded, classId, studentId) ==
    /\ rosterReqs[r].pc = "idle"
    /\ rosterReqs' = [rosterReqs EXCEPT ![r] =
            IF decoded.role # "teacher" THEN RosterAnswer("add-student", "Forbidden")
            ELSE IF classId \notin DOMAIN classes THEN RosterAnswer("add-student", "ClassNotFound")
            ELSE IF classes[classId].teacher_id # decoded.id
                THEN RosterAnswer("add-student", "Forbidden")
            ELSE IF studentId \notin Students THEN RosterAnswer("add-student", "StudentNotFound")
            ELSE RosterLoaded("add-student", classId, studentId)]
    /\ UNCHANGED <<now, store, reqs, committed, probe, resp, quizReq>>

\* POST /join up to the push: the role and class tests, and the push only if
\* the list that was read does not include the caller
JoinBegin(r, decoded, classId) ==
    /\ rosterReqs[r].pc = "idle"
    /\ rosterReqs' = [rosterReqs EXCEPT ![r] =
            IF decoded.role # "student" THEN RosterAnswer("join", "Forbidden")
            ELSE IF classId \notin DOMAIN classes THEN RosterAnswer("join", "ClassNotFound")
            ELSE IF Includes(classes[classId].students, decoded.id)
                THEN RosterAnswer("join", "AlreadyInClass")
            ELSE RosterLoaded("join", classId, decoded.id)]
    /\ UNCHANGED <<now, store, reqs, committed, probe, resp, quizReq>>

\* existingClass.save() after students.push: the id is appended to the stored
\* list (a $push), whatever was written since the class was read
PushSave(r) ==
    LET q == rosterReqs[r]
    IN  /\ q.pc = "save"
        /\ q.op \in {"add-student", "join"}
        /\ classes[q.classId].v < MaxWrites
        /\ classes' = [classes EXCEPT ![q.classId] =
                [@ EXCEPT !.students = Append(@, q.studentId), !.v = @ + 1]]
        /\ rosterReqs' = [rosterReqs EXCEPT ![r] = RosterAnswer(q.op, "Success")]
        /\ UNCHANGED <<now, quizzes, studentResponses, studentResults, reqs, committed,
                       probe, resp, quizReq>>

\* DELETE /:classId/remove-student up to the splice
RemoveStudentBegin(r, decoded, classId, studentId) ==
    /\ rosterReqs[r].pc = "idle"
    /\ rosterReqs' = [rosterReqs EXCEPT ![r] =
            IF decoded.role # "teacher" THEN RosterAnswer("remove-student", "Forbidden")
            ELSE IF classId \notin DOMAIN classes
                THEN RosterAnswer("remove-student", "ClassNotFound")
            ELSE IF classes[classId].teacher_id # decoded.id
                THEN RosterAnswer("remove-student", "Forbidden")
            ELSE IF indexOf(classes[classId].students, studentId) = 0
                THEN RosterAnswer("remove-student", "StudentNotInClass")
            ELSE RosterLoaded("remove-student", classId, studentId)]
    /\ UNCHANGED <<now, store, reqs, committed, probe, resp, quizReq>>

\* existingClass.save() after students.splice: the whole list is written (a
\* $set) provided the stored version is the one that was read; otherwise the
\* save throws and the request is answered 500
RemoveStudentSave(r) ==
    LET q == rosterReqs[r]
        studentIndex == indexOf(q.existingClass.students, q.studentId)
    IN  /\ q.pc = "save"
        /\ q.op = "remove-student"
        /\ classes[q.classId].v < MaxWrites
        /\ IF classes[q.classId].v = q.existingClass.v
           THEN /\ classes' = [classes EXCEPT ![q.classId] =
                        [@ EXCEPT !.students = splice(q.existingClass.students, studentIndex),
                                  !.v = @ + 1]]
                /\ rosterReqs' = [rosterReqs EXCEPT ![r] = RosterAnswer(q.op, "Success")]
           ELSE /\ rosterReqs' = [rosterReqs EXCEPT ![r] = RosterAnswer(q.op, "InternalFailure")]
                /\ UNCHANGED classes
        /\ UNCHANGED <<now, quizzes, studentResponses, studentResults, reqs, committed,
                       probe, resp, quizReq>>

\* the request is answered; the slot takes the next request
RosterFinish(r) ==
    /\ rosterReqs[r].pc = "done"
    /\ rosterReqs' = [rosterReqs EXCEPT ![r] = RosterIdle]
    /\ UNCHANGED <<now, store, reqs, committed, probe, resp, quizReq>>

----------------------------------------------------------------------------
(* Quiz create and update *)

\* the window of the stored quiz, and the duration sent with every request
QuizStart == TickStep
QuizDuration == TickStep

\* req.body.start_date: a date (minute t), absent from the body, or a string
\* that is no date
DateInput(t) == [kind |-> "date", t |-> t]
AbsentDate == [kind |-> "absent", t |-> 0]
InvalidDate == [kind |-> "invalid", t |-> 0]

StartDates == {AbsentDate, InvalidDate} \cup {DateInput(t) : t \in {0, TickStep, 2 * TickStep, MaxTime + TickStep}}

\* the start_date of a stored quiz that has none
NoDate == -1

\* quizStartDate <= now, with quizStartDate = new Date(start_date): an Invalid
\* Date (start_date undefined or no date) compares false with every date
startDateNotInFuture(start_date, currentDate) ==
    start_date.kind = "date" /\ start_date.t <= currentDate

\* the cast of start_date by quizSchema: an undefined value leaves the field
\* out, and a value that is no date fails validation
castFails(start_date) == start_date.kind = "invalid"

castDate(start_date) == IF start_date.kind = "date" THEN start_date.t ELSE NoDate

\* req.body.questions of an update: the stored questions, q2 removed, q1
\* re-flagged (o2 correct in place of o1), q3 added
EditedQuestions ==
    { SampleQuestions,
      << Question("q1", <<Option("o1", TRUE), Option("o2", FALSE)>>) >>,
      << Question("q1", <<Option("o1", FALSE), Option("o2", TRUE)>>),
         Question("q2", <<Option("o3", TRUE), Option("o4", TRUE)>>) >>,
      SampleQuestions \o << Question("q3", <<Option("o5", TRUE)>>) >> }

\* a create, update or delete request: its parameters, the time it was made,
\* the position of the quiz in the list of the class it read (quizIndex, 0
\* for -1) and the version of that class (v), and the store as it was when
\* the request arrived (before); made counts the quiz _ids generated so far,
\* which outlives the request
QuizIdle ==
    [pc |-> "idle", op |-> "none", classId |-> "", quizId |-> "", start_date |-> AbsentDate,
     questions |-> <<>>, quizIndex |-> 0, v |-> 0, currentDate |-> 0, kind |-> "",
     before |-> <<>>, made |-> 0]

\* the _ids of quizzes in the order they are generated: an _id is never
\* generated twice
QuizIdSeq == <<"k1", "k2">>

QuizAnswer(q, kind) == [q EXCEPT !.pc = "done", !.kind = kind]

QuizArrived(op, classId, quizId, start_date, questions) ==
    [pc |-> "arrived", op |-> op, classId |-> classId, quizId |-> quizId,
     start_date |-> start_date, questions |-> questions, quizIndex |-> 0, v |-> 0,
     currentDate |-> now, kind |-> "", before |-> <<quizzes, classes>>,
     made |-> quizReq.made]

\* the tests shared by the create and update handlers before the quiz lookup
QuizOwnerKind(decoded, classId) ==
    IF decoded.role # "teacher" THEN "Forbidden"
    ELSE IF classId \notin DOMAIN classes THEN "ClassNotFound"
    ELSE IF classes[classId].teacher_id # decoded.id THEN "Forbidden"
    ELSE "Pass"

\* POST /:classId/quizzes up to new Quiz: the role, class and owner tests and
\* the start_date test; quizId is the _id of the new document
CreateBegin(decoded, classId, start_date) ==
    /\ quizReq.pc = "idle"
    /\ quizReq.made < Len(QuizIdSeq)
    /\ LET q == QuizArrived("create", classId, QuizIdSeq[quizReq.made + 1],
                            start_date, SampleQuestions)
           kind == QuizOwnerKind(decoded, classId)
       IN quizReq' =
            IF kind # "Pass" THEN QuizAnswer(q, kind)
            ELSE IF startDateNotInFuture(start_date, now) THEN QuizAnswer(q, "StartNotInFuture")
            ELSE [q EXCEPT !.pc = "saveQuiz", !.made = @ + 1]
    /\ UNCHANGED <<now, store, reqs, committed, probe, resp, rosterReqs>>

\* newQuiz.validate() and newQuiz.save() inside the inner try: an error of
\* either is logged and the request is still answered "Quiz created
\* successfully"
CreateSaveQuiz(ok) ==
    /\ quizReq.pc = "saveQuiz"
    /\ IF castFails(quizReq.start_date) \/ ~ok
       THEN /\ quizReq' = QuizAnswer(quizReq, "Success")
            /\ UNCHANGED quizzes
       ELSE /\ quizzes' = [k \in DOMAIN quizzes \cup {quizReq.quizId} |->
                    IF k = quizReq.quizId
                    THEN QuizDoc(quizReq.classId, castDate(quizReq.start_date), QuizDuration,
                                 quizReq.questions)
                    ELSE quizzes[k]]
            /\ quizReq' = [quizReq EXCEPT !.pc = "saveClass"]
    /\ UNCHANGED <<now, classes, studentResponses, studentResults, reqs, committed, probe,
                   resp, rosterReqs>>

\* existingClass.quizzes.push(newQuiz._id) and existingClass.save(), in the
\* same inner try
CreateSaveClass(ok) ==
    /\ quizReq.pc = "saveClass"
    /\ classes[quizReq.classId].v < MaxWrites
    /\ IF ok
       THEN classes' = [classes EXCEPT ![quizReq.classId] =
                [@ EXCEPT !.quizzes = Append(@, quizReq.quizId), !.v = @ + 1]]
       ELSE UNCHANGED classes
    /\ quizReq' = QuizAnswer(quizReq, "Success")
    /\ UNCHANGED <<now, quizzes, studentResponses, studentResults, reqs, committed, probe,
                   resp, rosterReqs>>

\* PATCH /:classId/quizzes/:quizId up to the save
PatchBegin(decoded, classId, quizId, start_date, questions) ==
    /\ quizReq.pc = "idle"
    /\ LET q == QuizArrived("patch", classId, quizId, start_date, questions)
           kind == QuizOwnerKind(decoded, classId)
       IN quizReq' =
            IF kind # "Pass" THEN QuizAnswer(q, kind)
            ELSE IF ~findById(quizId).found THEN QuizAnswer(q, "QuizNotFound")
            ELSE IF startDateNotInFuture(start_date, now) THEN QuizAnswer(q, "StartNotInFuture")
            ELSE [q EXCEPT !.pc = "patchSave"]
    /\ UNCHANGED <<now, store, reqs, committed, probe, resp, rosterReqs>>

\* an update that also rewrites out_of in the results of the quiz
PatchSaveRescore(ok) ==
    /\ quizReq.pc = "patchSave"
    /\ IF castFails(quizReq.start_date) \/ ~ok
       THEN /\ quizReq' = QuizAnswer(quizReq, "InternalFailure")
            /\ UNCHANGED <<quizzes, studentResults>>
       ELSE /\ quizzes' = [quizzes EXCEPT ![quizReq.quizId] =
                    [@ EXCEPT !.start_date = castDate(quizReq.start_date),
                              !.duration = QuizDuration, !.questions = quizReq.questions]]
            /\ studentResults' = [i \in 1..Len(studentResults) |->
                    IF studentResults[i].quiz_id = quizReq.quizId
                    THEN [studentResults[i] EXCEPT !.out_of = Len(quizReq.questions)]
                    ELSE studentResults[i]]
            /\ quizReq' = QuizAnswer(quizReq, "Success")
    /\ UNCHANGED <<now, classes, studentResponses, reqs, committed, probe, resp, rosterReqs>>

\* existingQuiz.save(): a start_date that is no date fails validation, and an
\* error of the save is answered 500
PatchSave(ok) ==
    /\ quizReq.pc = "patchSave"
    /\ IF castFails(quizReq.start_date) \/ ~ok
       THEN /\ quizReq' = QuizAnswer(quizReq, "InternalFailure")
            /\ UNCHANGED quizzes
       ELSE /\ quizzes' = [quizzes EXCEPT ![quizReq.quizId] =
                    [@ EXCEPT !.start_date = castDate(quizReq.start_date),
                              !.duration = QuizDuration, !.questions = quizReq.questions]]
            /\ quizReq' = QuizAnswer(quizReq, "Success")
    /\ UNCHANGED <<now, classes, studentResponses, studentResults, reqs, committed, probe,
                   resp, rosterReqs>>

\* the key of function f without the entry of id
Without(f, id) == [k \in DOMAIN f \ {id} |-> f[k]]

\* existingClass.quizzes.forEach(...): the forEach runs to the end, so
\* quizIndex is the last position that holds quizId, 0 (for -1) when none does
quizIndexOf(array, quizId) ==
    LET found == {i \in 1..Len(array) : array[i] = quizId}
    IN  IF found = {} THEN 0 ELSE CHOOSE i \in found : \A j \in found : j <= i

\* DELETE /:classId/quizzes/:quizId up to quiz.deleteOne(): the role, class
\* and owner tests, the search of quizId in the quiz list of the class, and
\* Quiz.findById; class_id of the quiz is not compared with classId
DeleteQuizBegin(decoded, classId, quizId) ==
    /\ quizReq.pc = "idle"
    /\ LET q == QuizArrived("delete", classId, quizId, AbsentDate, <<>>)
           kind == QuizOwnerKind(decoded, classId)
       IN quizReq' =
            IF kind # "Pass" THEN QuizAnswer(q, kind)
            ELSE IF ~findById(quizId).found THEN QuizAnswer(q, "QuizNotFound")
            ELSE [q EXCEPT !.pc = "deleteOne", !.v = classes[classId].v,
                           !.quizIndex = quizIndexOf(classes[classId].quizzes, quizId)]
    /\ UNCHANGED <<now, store, reqs, committed, probe, resp, rosterReqs>>

\* a delete that also removes the StudentResponses of the quiz
DeleteQuizDeleteOneCascade(ok) ==
    /\ quizReq.pc = "deleteOne"
    /\ IF ok
       THEN /\ quizzes' = Without(quizzes, quizReq.quizId)
            /\ studentResponses' = SelectSeq(studentResponses,
                    LAMBDA x : x.quiz_id # quizReq.quizId)
            /\ quizReq' = IF quizReq.quizIndex = 0 THEN QuizAnswer(quizReq, "Success")
                          ELSE [quizReq EXCEPT !.pc = "deleteSaveClass"]
       ELSE /\ quizReq' = QuizAnswer(quizReq, "InternalFailure")
            /\ UNCHANGED <<quizzes, studentResponses>>
    /\ UNCHANGED <<now, classes, studentResults, reqs, committed, probe, resp, rosterReqs>>

\* quiz.deleteOne(): the Quiz document is removed, nothing else; the request
\* is answered at once when the class list does not hold the quiz
DeleteQuizDeleteOne(ok) ==
    /\ quizReq.pc = "deleteOne"
    /\ IF ok
       THEN /\ quizzes' = Without(quizzes, quizReq.quizId)
            /\ quizReq' = IF quizReq.quizIndex = 0 THEN QuizAnswer(quizReq, "Success")
                          ELSE [quizReq EXCEPT !.pc = "deleteSaveClass"]
       ELSE /\ quizReq' = QuizAnswer(quizReq, "InternalFailure")
            /\ UNCHANGED quizzes
    /\ UNCHANGED <<now, classes, studentResponses, studentResults, reqs, committed, probe,
                   resp, rosterReqs>>

\* existingClass.quizzes.splice(quizIndex, 1) and existingClass.save(): the
\* list is written provided the stored version is the one that was read; a
\* failed save is answered 500 with the Quiz document already removed
DeleteQuizSaveClass(ok) ==
    /\ quizReq.pc = "deleteSaveClass"
    /\ quizReq.classId \in DOMAIN classes
    /\ classes[quizReq.classId].v < MaxWrites
    /\ IF ok /\ classes[quizReq.classId].v = quizReq.v
       THEN /\ classes' = [classes EXCEPT ![quizReq.classId] =
                    [@ EXCEPT !.quizzes = splice(@, quizReq.quizIndex), !.v = @ + 1]]
            /\ quizReq' = QuizAnswer(quizReq, "Success")
       ELSE /\ quizReq' = QuizAnswer(quizReq, "InternalFailure")
            /\ UNCHANGED classes
    /\ UNCHANGED <<now, quizzes, studentResponses, studentResults, reqs, committed, probe,
                   resp, rosterReqs>>

\* DELETE /:classId up to existingClass.deleteOne()
DeleteClassBegin(decoded, classId) ==
    /\ quizReq.pc = "idle"
    /\ LET q == QuizArrived("deleteClass", classId, "", AbsentDate, <<>>)
           kind == QuizOwnerKind(decoded, classId)
       IN quizReq' = IF kind # "Pass" THEN QuizAnswer(q, kind)
                     ELSE [q EXCEPT !.pc = "deleteClass"]
    /\ UNCHANGED <<now, store, reqs, committed, probe, resp, rosterReqs>>

\* existingClass.deleteOne(): the Class document is removed, nothing else
DeleteClassDeleteOne(ok) ==
    /\ quizReq.pc = "deleteClass"
    /\ IF ok
       THEN /\ classes' = Without(classes, quizReq.classId)
            /\ quizReq' = QuizAnswer(quizReq, "Success")
       ELSE /\ quizReq' = QuizAnswer(quizReq, "InternalFailure")
            /\ UNCHANGED classes
    /\ UNCHANGED <<now, quizzes, studentResponses, studentResults, reqs, committed, probe,
                   resp, rosterReqs>>

\* the request is answered; the next one may arrive
QuizFinish ==
    /\ quizReq.pc = "done"
    /\ quizReq' = [QuizIdle EXCEPT !.made = quizReq.made]
    /\ UNCHANGED <<now, store, reqs, committed, probe, resp, rosterReqs>>

----------------------------------------------------------------------------
(* Initial store: class c1 of teacher t1 with quiz k1, class c2 of teacher *)
(* t2; no quiz has id k2                                                  *)

SampleClass == ClassDoc("t1", <<"s1">>, <<"k1">>)

\* a second class, of teacher t2, with student s2 and no quiz
OtherClass == ClassDoc("t2", <<"s2">>, <<>>)

InitStore ==
    /\ quizzes = [k \in {"k1"} |-> QuizDoc("c1", QuizStart, QuizDuration, SampleQuestions)]
    /\ classes = [c \in {"c1", "c2"} |-> IF c = "c1" THEN SampleClass ELSE OtherClass]
    /\ resp = NoResp
    /\ rosterReqs = [r \in Slots |-> RosterIdle]
    /\ quizReq = [QuizIdle EXCEPT !.made = 1]
    /\ studentResponses = <<>>
    /\ studentResults = <<>>
    /\ reqs = [r \in Slots |-> Idle]
    /\ committed = {}

----------------------------------------------------------------------------
(* Spec: requests handled one after the other, while the clock advances *)

\* bodies the requests of Spec carry
SampleBodies ==
    { Body(<<Response("q1", Selected(<<"o1">>)), Response("q2", Selected(<<"o3", "o4">>))>>),
      Body(<<Response("q1", Selected(<<"o2">>))>>),
      Body(<<Response("q1", Selected(<<"o1">>)), Response("q2", ScalarSelected)>>),
      NoBody }

Init ==
    /\ now = 0
    /\ InitStore
    /\ probe = NoProbe

Next ==
    \/ \E caller \in Callers, student_id \in Students,
          quizId \in QuizIds, responses \in SampleBodies :
            SubmitBegin(1, caller, student_id, quizId, responses)
    \/ SubmitWindow(1)
    \/ SubmitFind(1)
    \/ \E ok \in BOOLEAN : SubmitSaveResponse(1, ok)
    \/ \E ok \in BOOLEAN : SubmitSaveResult(1, ok)
    \/ Finish(1)
    \/ Tick

Spec == Init /\ [][Next]_vars

----------------------------------------------------------------------------
(* SpecRace: requests of students in flight together, inside the window *)

RaceBody == Body(<<Response("q1", Selected(<<"o1">>))>>)

InitRace ==
    /\ now = QuizStart
    /\ InitStore
    /\ probe = NoProbe

NextRace ==
    \/ \E r \in Slots, student_id \in Students :
            SubmitBegin(r, [id |-> student_id, role |-> "student"], student_id, "k1", RaceBody)
    \/ \E r \in Slots : SubmitWindow(r)
    \/ \E r \in Slots : SubmitFind(r)
    \/ \E r \in Slots, ok \in BOOLEAN : SubmitSaveResponse(r, ok)
    \/ \E r \in Slots, ok \in BOOLEAN : SubmitSaveResult(r, ok)
    \/ \E r \in Slots : Finish(r)

SpecRace == InitRace /\ [][NextRace]_vars

----------------------------------------------------------------------------
(* SpecScore: one request of student s1 inside the window, over every body *)
(* of at most MaxBatch responses                                          *)

ResponseAlphabet ==
    { Response("q1", Selected(<<"o1">>)),        \* Q1 answered correctly
      Response("q1", Selected(<<"o2">>)),        \* Q1 answered wrongly
      Response("q2", Selected(<<"o3", "o4">>)),  \* Q2 answered correctly
      Response("q2", Selected(<<"o4", "o3">>)),  \* Q2: the correct ids, reordered
      Response("qx", Selected(<<"o1">>)),        \* no such question in the quiz
      Response("", Selected(<<"o1">>)),          \* empty question_id
      Response("q1", ScalarSelected),            \* selected_options is not an array
      Response("q2", MissingSelected) }          \* selected_options is missing

AllBodies == { Body(items) : items \in UNION { [1..n -> ResponseAlphabet] : n \in 0..MaxBatch } }

InitScore ==
    /\ now = QuizStart
    /\ InitStore
    /\ probe = NoProbe

NextScore ==
    \/ \E responses \in AllBodies :
            SubmitBegin(1, [id |-> "s1", role |-> "student"], "s1", "k1", responses)
    \/ SubmitWindow(1)
    \/ SubmitFind(1)
    \/ \E ok \in BOOLEAN : SubmitSaveResponse(1, ok)
    \/ \E ok \in BOOLEAN : SubmitSaveResult(1, ok)

SpecScore == InitScore /\ [][NextScore]_vars

----------------------------------------------------------------------------
(* SpecRead: the read handlers beside submit requests handled one after the *)
(* other, while the clock advances                                          *)

NextRead ==
    \/ \E student_id \in Students :
            SubmitBegin(1, [id |-> student_id, role |-> "student"], student_id, "k1", RaceBody)
    \/ SubmitWindow(1)
    \/ SubmitFind(1)
    \/ \E ok \in BOOLEAN : SubmitSaveResponse(1, ok)
    \/ \E ok \in BOOLEAN : SubmitSaveResult(1, ok)
    \/ Finish(1)
    \/ Tick
    \/ /\ reqs[1].pc = "idle"
       /\ \E decoded \in Callers, classId \in ClassIds, quizId \in QuizIds :
            ViewQuiz(decoded, classId, quizId)
    \/ /\ reqs[1].pc = "idle"
       /\ \E decoded \in Callers, classId \in ClassIds, quizId \in QuizIds :
            GetResults(decoded, classId, quizId)
    \/ /\ reqs[1].pc = "idle"
       /\ \E decoded \in Callers, classId \in ClassIds, quizId \in QuizIds :
            GetCsvResults(decoded, classId, quizId)

SpecRead == Init /\ [][NextRead]_vars

----------------------------------------------------------------------------
(* SpecRoster: add-student, join and remove-student requests on class c1,   *)
(* handled concurrently                                                     *)

NextRoster ==
    \/ \E r \in Slots, decoded \in Callers, classId \in {"c1", "cx"}, studentId \in StudentIds :
            AddStudentBegin(r, decoded, classId, studentId)
    \/ \E r \in Slots, decoded \in Callers, classId \in {"c1", "cx"} :
            JoinBegin(r, decoded, classId)
    \/ \E r \in Slots, decoded \in Callers, classId \in {"c1", "cx"}, studentId \in StudentIds :
            RemoveStudentBegin(r, decoded, classId, studentId)
    \/ \E r \in Slots : PushSave(r)
    \/ \E r \in Slots : RemoveStudentSave(r)
    \/ \E r \in Slots : RosterFinish(r)

SpecRoster == Init /\ [][NextRoster]_vars

----------------------------------------------------------------------------
(* SpecQuiz: create and update requests handled one after the other, while  *)
(* the clock advances                                                       *)

NextQuiz ==
    \/ \E decoded \in Callers, classId \in ClassIds, start_date \in StartDates :
            CreateBegin(decoded, classId, start_date)
    \/ \E ok \in BOOLEAN : CreateSaveQuiz(ok)
    \/ \E ok \in BOOLEAN : CreateSaveClass(ok)
    \/ \E decoded \in Callers, classId \in ClassIds, quizId \in QuizIds,
          start_date \in StartDates :
            PatchBegin(decoded, classId, quizId, start_date, SampleQuestions)
    \/ \E ok \in BOOLEAN : PatchSave(ok)
    \/ QuizFinish
    \/ Tick

SpecQuiz == Init /\ [][NextQuiz]_vars

----------------------------------------------------------------------------
(* SpecEdit: submissions to quiz k1 beside the operations that follow them: *)
(* quiz update and delete, class delete, roster changes, user update, and   *)
(* the read of a student's result.  Requests are handled one after the      *)
(* other, at the start of the window of k1.                                 *)

\* no request is being handled
Quiet == reqs[1].pc = "idle" /\ quizReq.pc = "idle" /\ rosterReqs[1].pc = "idle"

Owner == [id |-> "t1", role |-> "teacher"]

NextEdit ==
    \/ /\ Quiet
       /\ \E student_id \in Students :
            SubmitBegin(1, [id |-> student_id, role |-> "student"], student_id, "k1", RaceBody)
    \/ SubmitWindow(1)
    \/ SubmitFind(1)
    \/ \E ok \in BOOLEAN : SubmitSaveResponse(1, ok)
    \/ \E ok \in BOOLEAN : SubmitSaveResult(1, ok)
    \/ Finish(1)
    \/ /\ Quiet
       /\ \E questions \in EditedQuestions :
            PatchBegin(Owner, "c1", "k1", DateInput(2 * TickStep), questions)
    \/ \E ok \in BOOLEAN : PatchSave(ok)
    \/ /\ Quiet
       /\ \E decoded \in Callers, classId \in {"c1", "c2"} : DeleteQuizBegin(decoded, classId, "k1")
    \/ \E ok \in BOOLEAN : DeleteQuizDeleteOne(ok)
    \/ \E ok \in BOOLEAN : DeleteQuizSaveClass(ok)
    \/ /\ Quiet
       /\ DeleteClassBegin(Owner, "c1")
    \/ \E ok \in BOOLEAN : DeleteClassDeleteOne(ok)
    \/ QuizFinish
    \/ /\ Quiet
       /\ AddStudentBegin(1, Owner, "c1", "s2")
    \/ /\ Quiet
       /\ JoinBegin(1, [id |-> "s2", role |-> "student"], "c1")
    \/ /\ Quiet
       /\ RemoveStudentBegin(1, Owner, "c1", "s1")
    \/ PushSave(1)
    \/ RemoveStudentSave(1)
    \/ RosterFinish(1)
    \/ /\ Quiet
       /\ GetStudentResult(Owner, "c1", "s1", "k1")
    \/ /\ Quiet
       /\ UpdateUser(Owner)

SpecEdit == InitRace /\ [][NextEdit]_vars

----------------------------------------------------------------------------
(* SpecManage: quiz create, update and delete, class delete and quiz view,  *)
(* handled one after the other, from a store with two classes and no quiz;  *)
(* every start_date sent is a date in the future                            *)

InitManage ==
    /\ now = 0
    /\ quizzes = [k \in {} |-> NullQuiz]
    /\ classes = [c \in {"c1", "c2"} |->
                    IF c = "c1" THEN ClassDoc("t1", <<"s1">>, <<>>) ELSE OtherClass]
    /\ studentResponses = <<>>
    /\ studentResults = <<>>
    /\ reqs = [r \in Slots |-> Idle]
    /\ committed = {}
    /\ probe = NoProbe
    /\ resp = NoResp
    /\ rosterReqs = [r \in Slots |-> RosterIdle]
    /\ quizReq = QuizIdle

ManageQuestions ==
    { SampleQuestions, << Question("q1", <<Option("o1", TRUE), Option("o2", FALSE)>>) >> }

NextManage ==
    \/ \E decoded \in Callers, classId \in ClassIds :
            CreateBegin(decoded, classId, DateInput(TickStep))
    \/ \E ok \in BOOLEAN : CreateSaveQuiz(ok)
    \/ \E ok \in BOOLEAN : CreateSaveClass(ok)
    \/ \E decoded \in Callers, classId \in ClassIds, quizId \in QuizIds,
          questions \in ManageQuestions :
            PatchBegin(decoded, classId, quizId, DateInput(2 * TickStep), questions)
    \/ \E ok \in BOOLEAN : PatchSave(ok)
    \/ \E decoded \in Callers, classId \in ClassIds, quizId \in QuizIds :
            DeleteQuizBegin(decoded, classId, quizId)
    \/ \E ok \in BOOLEAN : DeleteQuizDeleteOne(ok)
    \/ \E ok \in BOOLEAN : DeleteQuizSaveClass(ok)
    \/ \E decoded \in Callers : DeleteClassBegin(decoded, "c1")
    \/ \E ok \in BOOLEAN : DeleteClassDeleteOne(ok)
    \/ QuizFinish
    \/ /\ quizReq.pc = "idle"
       /\ \E decoded \in Callers, classId \in {"c1", "c2"} : ViewQuiz(decoded, classId, "k1")

SpecManage == InitManage /\ [][NextManage]_vars

----------------------------------------------------------------------------
(* SpecWindow: the window tests over every start_date, duration and now *)

ProbeStarts == (0..MaxStart) \cup {MinutesPerHour - 1, MinutesPerHour}

InitWindow ==
    /\ now = 0
    /\ InitStore
    /\ probe \in [start_date : ProbeStarts, duration : 0..MaxDuration,
                  now : 0..MaxProbeTime, site : {"none"}, state : {"none"},
                  second : {"none"}]

NextWindow == ClassifySubmit \/ ClassifyView \/ ClassifyAgain

SpecWindow == InitWindow /\ [][NextWindow]_vars

----------------------------------------------------------------------------
(* Properties *)

CountResponses(student_id, quizId) ==
    Cardinality({i \in 1..Len(studentResponses) :
        studentResponses[i].student_id = student_id /\ studentResponses[i].quiz_id = quizId})

CountResults(student_id, quizId) ==
    Cardinality({i \in 1..Len(studentResults) :
        studentResults[i].student_id = student_id /\ studentResults[i].quiz_id = quizId})

Inside(t, start_date, duration) == start_date <= t /\ t <= start_date + duration

\* C1: for every (student, quiz) pair the store never holds more than one
\* StudentResponse nor more than one StudentResult, whatever the interleaving
\* of the submit requests for the pair.
C1_AtMostOnePerPair ==
    \A s \in Students, k \in QuizIds :
        CountResponses(s, k) <= 1 /\ CountResults(s, k) <= 1

\* C2: at either call site the window tests let a request through if and only
\* if start_date <= now <= start_date + duration.
C2_ActiveIffInside ==
    probe.site # "none" =>
        (probe.state = "ACTIVE" <=> Inside(probe.now, probe.start_date, probe.duration))

\* C3: when now equals start_date the window tests of both call sites answer
\* ACTIVE (neither not-started nor ended), for every duration >= 0.
C3_BoundaryIsActive ==
    (probe.site # "none" /\ probe.now = probe.start_date) => probe.state = "ACTIVE"

C3_Witness ==
    /\ probe.site = "submit"
    /\ probe.now = probe.start_date
    /\ probe.start_date > 0
    /\ probe.duration = 0
    /\ probe.state = "ACTIVE"

\* C4: a submit request of a student made before start_date ends QuizNotStarted,
\* one made after start_date + duration ends QuizEnded, and neither writes a
\* StudentResponse or a StudentResult.  (Read once the request has taken its
\* currentDate and gone through the window tests.)
C4_OutsideWindowRejected ==
    \A r \in Slots :
        LET req == reqs[r] IN
        (req.pc \notin {"idle", "window"} /\ req.caller.role = "student" /\ req.quiz.found) =>
            /\ req.currentDate < req.quiz.start_date =>
                    (req.pc = "done" /\ req.kind = "QuizNotStarted" /\ req.wrote = 0)
            /\ req.currentDate > req.quiz.start_date + req.quiz.duration =>
                    (req.pc = "done" /\ req.kind = "QuizEnded" /\ req.wrote = 0)

\* C5: a submit request that begins after a request for the same (student, quiz)
\* has finished with its StudentResponse stored is rejected and writes nothing;
\* when it is made by a student inside the window it ends AlreadySubmitted.
C5_ResubmissionRejected ==
    \A r \in Slots :
        LET req == reqs[r] IN
        req.after =>
            /\ req.wrote = 0
            /\ req.kind # "Success"
            /\ (/\ req.pc = "done"
                /\ req.caller.role = "student"
                /\ Inside(req.currentDate, req.quiz.start_date, req.quiz.duration))
                    => req.kind = "AlreadySubmitted"

C5_Witness ==
    \E r \in Slots :
        /\ reqs[r].pc = "done"
        /\ reqs[r].after
        /\ reqs[r].kind = "AlreadySubmitted"
        /\ ~HasInvalidFormat(reqs[r].responses.items)
        /\ reqs[r].responses.iterable
        /\ CountResponses(reqs[r].student_id, reqs[r].quizId) = 1

\* C6: a submit request of a student whose quizId matches no stored quiz ends
\* QuizNotFound and writes nothing.
C6_MissingQuizNotFound ==
    \A r \in Slots :
        LET req == reqs[r] IN
        (req.pc = "done" /\ req.caller.role = "student" /\ req.quizId \notin DOMAIN quizzes) =>
            (req.kind = "QuizNotFound" /\ req.wrote = 0)

\* an entry the claim calls malformed: empty or missing question_id, or a
\* selected_options that is not a collection
Malformed(response) ==
    response.question_id = "" \/ response.selected_options.kind \in {"scalar", "missing"}

\* C7: a body holding a malformed entry, at any position, is rejected as
\* MalformedResponse and neither a StudentResponse nor a StudentResult is written.
C7_MalformedRejected ==
    \A r \in Slots :
        LET req == reqs[r] IN
        (req.pc # "idle" /\ \E i \in 1..Len(req.responses.items) : Malformed(req.responses.items[i])) =>
            /\ req.wrote = 0
            /\ studentResponses = <<>> /\ studentResults = <<>>
            /\ req.pc \in {"window", "find", "done"}
            /\ req.pc = "done" => req.kind = "MalformedResponse"

C7_Witness ==
    \E r \in Slots :
        LET items == reqs[r].responses.items IN
        /\ reqs[r].pc = "done"
        /\ reqs[r].kind = "MalformedResponse"
        /\ Len(items) = 3
        /\ ~Malformed(items[1]) /\ ~Malformed(items[2]) /\ Malformed(items[3])
        /\ studentResponses = <<>> /\ studentResults = <<>>

ValidationKinds ==
    {"Forbidden", "QuizNotStarted", "QuizEnded", "AlreadySubmitted", "MalformedResponse"}

\* C8: the step that rejects a submit request for a validation reason leaves
\* the Quiz, Class, StudentResponse and StudentResult collections as they were,
\* and no earlier step of that request wrote.
C8_RejectionWritesNothing ==
    [][\A r \in Slots :
          (reqs[r].pc # "done" /\ reqs'[r].pc = "done" /\ reqs'[r].kind \in ValidationKinds)
              => (store' = store /\ reqs'[r].wrote = 0)]_vars

C8_Witness ==
    \E r \in Slots :
        /\ reqs[r].pc = "done"
        /\ reqs[r].kind = "MalformedResponse"
        /\ studentResponses # <<>>
        /\ studentResults # <<>>

\* the quiz questions for which the body holds the fully correct answer
AnsweredCorrectly(quiz, items) ==
    {q \in 1..Len(quiz.questions) :
        \E i \in 1..Len(items) :
            /\ items[i].question_id = quiz.questions[q].id
            /\ items[i].selected_options.items = CorrectIds(quiz.questions[q].options)}

\* C9: the score returned and persisted by an accepted submission is the number
\* of quiz questions the body answers fully correctly.
C9_ScoreCountsCorrectQuestions ==
    \A r \in Slots :
        LET req == reqs[r] IN
        (req.pc = "done" /\ req.kind = "Success") =>
            /\ req.score = Cardinality(AnsweredCorrectly(req.quiz, req.responses.items))
            /\ \A i \in 1..Len(studentResults) :
                    (studentResults[i].student_id = req.student_id
                        /\ studentResults[i].quiz_id = req.quizId)
                    => studentResults[i].score = req.score

\* C10: for an accepted submission, out_of as returned and as stored in the
\* StudentResult is the number of questions of the quiz, whatever the number
\* of responses in the body.
C10_OutOfIsQuestionCount ==
    /\ \A i \in 1..Len(studentResults) :
            studentResults[i].out_of = Len(quizzes[studentResults[i].quiz_id].questions)
    /\ \A r \in Slots :
            (reqs[r].pc = "done" /\ reqs[r].kind = "Success") =>
                /\ reqs[r].out_of = Len(quizzes[reqs[r].quizId].questions)
                /\ CountResults(reqs[r].student_id, reqs[r].quizId) >= 1

C10_Witness ==
    \E r \in Slots :
        /\ reqs[r].pc = "done"
        /\ reqs[r].kind = "Success"
        /\ Len(reqs[r].responses.items) > Len(reqs[r].quiz.questions)
        /\ reqs[r].out_of = 2
        /\ studentResults # <<>>
        /\ studentResults[1].out_of = 2

\* the entries of the body whose selected_options is, element by element and
\* in the same order, the sequence of the is_correct option ids of the question
\* they name
CorrectEntries(quiz, items) ==
    {i \in 1..Len(items) :
        \E q \in 1..Len(quiz.questions) :
            /\ items[i].question_id = quiz.questions[q].id
            /\ items[i].selected_options.items = CorrectIds(quiz.questions[q].options)}

\* C11: a response is scored correct iff its selected_options equals, in order,
\* the sequence of correct option ids of its question; the correct ids in
\* another order are scored incorrect.
C11_OrderSensitive ==
    \A r \in Slots :
        (reqs[r].pc = "done" /\ reqs[r].kind = "Success") =>
            reqs[r].score = Cardinality(CorrectEntries(reqs[r].quiz, reqs[r].responses.items))

C11_Witness ==
    \E r \in Slots :
        /\ reqs[r].pc = "done"
        /\ reqs[r].kind = "Success"
        /\ reqs[r].responses.items = <<Response("q2", Selected(<<"o4", "o3">>))>>
        /\ reqs[r].score = 0

ResultsOf(student_id, quizId) ==
    {i \in 1..Len(studentResults) :
        studentResults[i].student_id = student_id /\ studentResults[i].quiz_id = quizId}

\* C12: two submissions with the same quiz and the same responses get the same
\* (score, out_of), whoever the student, whatever the time and the contents of
\* the store.
C12_ScoringDeterministic ==
    \A i, j \in 1..Len(studentResponses) :
        (/\ studentResponses[i].quiz_id = studentResponses[j].quiz_id
         /\ studentResponses[i].responses = studentResponses[j].responses) =>
            \A a \in ResultsOf(studentResponses[i].student_id, studentResponses[i].quiz_id),
               b \in ResultsOf(studentResponses[j].student_id, studentResponses[j].quiz_id) :
                /\ studentResults[a].score = studentResults[b].score
                /\ studentResults[a].out_of = studentResults[b].out_of

C12_Witness ==
    /\ Len(studentResponses) = 2
    /\ Len(studentResults) = 2
    /\ studentResponses[1].student_id # studentResponses[2].student_id
    /\ studentResponses[1].responses = studentResponses[2].responses
    /\ studentResults[1].student_id # studentResults[2].student_id
    /\ studentResults[1].score = 2
    /\ studentResults[2].score = 2

\* C13: every StudentResult of a pair has a StudentResponse of the pair (never
\* more results than responses), and a submit request that answers success has
\* written one StudentResponse and one StudentResult.
C13_ResultHasResponse ==
    /\ \A s \in Students, k \in QuizIds : CountResults(s, k) <= CountResponses(s, k)
    /\ \A r \in Slots :
            (reqs[r].pc = "done" /\ reqs[r].kind = "Success") => reqs[r].wrote = 2

C13_Witness ==
    \E r \in Slots :
        /\ reqs[r].pc = "done"
        /\ reqs[r].kind = "Success"
        /\ CountResponses(reqs[r].student_id, reqs[r].quizId) = 1
        /\ CountResults(reqs[r].student_id, reqs[r].quizId) = 1

\* C14: a request whose StudentResult save fails after its StudentResponse save
\* succeeded ends InternalFailure, and the store holds a StudentResponse of the
\* pair and no StudentResult.
C14_ResultFailureSurfaced ==
    \A r \in Slots :
        (reqs[r].pc = "done" /\ reqs[r].wrote = 1) =>
            /\ reqs[r].kind = "InternalFailure"
            /\ CountResponses(reqs[r].student_id, reqs[r].quizId) = 1
            /\ CountResults(reqs[r].student_id, reqs[r].quizId) = 0

C14_Witness ==
    \E r \in Slots :
        /\ reqs[r].pc = "done"
        /\ reqs[r].wrote = 1
        /\ reqs[r].kind = "InternalFailure"
        /\ CountResponses(reqs[r].student_id, reqs[r].quizId) = 1
        /\ CountResults(reqs[r].student_id, reqs[r].quizId) = 0

\* C16: for every start_date, duration and now, the window tests of the view
\* handler and of the submit handler give the same classification.
C16_SameWindowAtBothSites ==
    probe.second # "none" => probe.second = probe.state

C16_Witness ==
    /\ probe.site = "view"
    /\ probe.second = "ENDED"
    /\ probe.state = "ENDED"

\* C15: a student is sent the quiz only if the quiz exists, now is inside
\* [start_date, start_date + duration] and no StudentResponse of (that
\* student, quiz) is stored; so every view after the student's submission was
\* recorded is rejected.
C15_ViewGatedLikeSubmit ==
    (resp.op = "view" /\ resp.caller.role = "student" /\ resp.kind = "Success") =>
        /\ resp.quizId \in DOMAIN quizzes
        /\ Inside(resp.at, quizzes[resp.quizId].start_date, quizzes[resp.quizId].duration)
        /\ resp.attempts = 0

\* C17: the quiz sent to a student carries no is_correct flag on any option.
C17_NoCorrectFlagForStudent ==
    (resp.op = "view" /\ resp.caller.role = "student" /\ resp.kind = "Success") =>
        \A q \in 1..Len(resp.quiz.questions) :
            \A o \in 1..Len(resp.quiz.questions[q].options) :
                "is_correct" \notin DOMAIN resp.quiz.questions[q].options[o]

\* C18: the results of a quiz, as a list or as csv, are sent only to the
\* teacher who owns the class that contains the quiz; a student or another
\* teacher is answered Forbidden.
C18_ResultsOnlyForOwner ==
    (resp.op \in {"results", "csvresults"} /\ resp.quizId \in DOMAIN quizzes) =>
        LET owner == classes[quizzes[resp.quizId].class_id].teacher_id
        IN  /\ resp.kind = "Success" => (resp.caller.role = "teacher" /\ resp.caller.id = owner)
            /\ (resp.caller.role = "student" \/ resp.caller.id # owner) => resp.kind = "Forbidden"

\* C19: in every reachable state, after any interleaving of add-student, join
\* and remove-student requests, no student id occurs more than once in the
\* students list of a class.
C19_NoDuplicateStudent ==
    \A c \in DOMAIN classes :
        \A i, j \in 1..Len(classes[c].students) :
            classes[c].students[i] = classes[c].students[j] => i = j

\* C20: a create or update request whose start_date is not a date strictly
\* later than the time of the request (at or before now, absent, or no valid
\* date) is rejected, and the stored quizzes and classes are as they were.
C20_StartDateInFuture ==
    (/\ quizReq.pc = "done"
     /\ ~(quizReq.start_date.kind = "date" /\ quizReq.start_date.t > quizReq.currentDate)) =>
        /\ quizReq.kind # "Success"
        /\ <<quizzes, classes>> = quizReq.before

\* C21: no step of any operation (submission, quiz update, quiz delete, class
\* delete, roster change, user update) changes or removes a StudentResponse
\* that is stored.
C21_ResponsesImmutable ==
    [][\A i \in 1..Len(studentResponses) :
          /\ i <= Len(studentResponses')
          /\ studentResponses'[i] = studentResponses[i]]_vars

C21_Witness ==
    /\ Len(studentResponses) = 2
    /\ "k1" \notin DOMAIN quizzes
    /\ "c1" \notin DOMAIN classes

\* C22: no step changes a stored StudentResult, in particular no update of its
\* quiz; and the read of a student's result sends the score and out_of of the
\* stored StudentResult, so the same before and after an edit of the quiz.
C22_ResultStable ==
    [][/\ \A i \in 1..Len(studentResults) :
             /\ i <= Len(studentResults')
             /\ studentResults'[i] = studentResults[i]
       /\ (resp' # resp /\ resp'.op = "result" /\ resp'.kind = "Success") =>
             \E i \in 1..Len(studentResults) :
                /\ studentResults[i].quiz_id = resp'.quizId
                /\ resp'.results = << studentResults[i] >>]_vars

C22_Witness ==
    /\ resp.op = "result"
    /\ resp.kind = "Success"
    /\ resp.results[1].out_of = 2
    /\ "k1" \in DOMAIN quizzes
    /\ Len(quizzes["k1"].questions) = 3
    /\ studentResults # <<>>
    /\ studentResults[1].out_of = 2

\* C23: a quiz creation that is answered with success has stored the quiz and
\* put it in the quiz list of its class; a failure of validate or of either
\* save is answered with an error.
C23_CreateFailureSurfaced ==
    (quizReq.pc = "done" /\ quizReq.op = "create" /\ quizReq.kind = "Success") =>
        /\ quizReq.quizId \in DOMAIN quizzes
        /\ Includes(classes[quizReq.classId].quizzes, quizReq.quizId)

\* C24: the gate of a submit request tests the role, then the window, then the
\* earlier attempt, then the format: a request of a student who has already
\* submitted is answered with the window error when it is made outside
\* [start_date, start_date + duration], and with AlreadySubmitted when it is
\* made inside with a malformed body; a caller who is no student is answered
\* Forbidden whatever the rest.
C24_GateOrder ==
    \A r \in Slots :
        LET req == reqs[r] IN
        req.pc = "done" =>
            /\ req.caller.role # "student" => req.kind = "Forbidden"
            /\ (req.caller.role = "student" /\ req.quiz.found /\ req.after) =>
                  IF Inside(req.currentDate, req.quiz.start_date, req.quiz.duration)
                  THEN req.kind = "AlreadySubmitted"
                  ELSE req.kind \in {"QuizNotStarted", "QuizEnded"}

\* C25: every stored StudentResult has 0 <= score <= out_of, also for a body
\* with several responses to one question or more responses than questions.
C25_ScoreWithinOutOf ==
    \A i \in 1..Len(studentResults) :
        0 <= studentResults[i].score /\ studentResults[i].score <= studentResults[i].out_of

\* an entry of a class's quizzes list as the create handler makes it: the _id
\* of the new quiz pushed into an array of quizSchema documents is cast to a
\* document that holds that _id and no other field
embedded(quizId) == [id |-> quizId]

\* C26: when no create, update or delete request is under way, a quiz id is in
\* the quizzes list of a class iff a Quiz document with that id and that
\* class_id is stored, and the entry of the list carries the start_date,
\* duration and questions of the Quiz document.
C26_IndexesAgree ==
    quizReq.pc \in {"idle", "done"} =>
        \A c \in ClassIds, k \in QuizIds :
            LET listed == c \in DOMAIN classes /\ Includes(classes[c].quizzes, k)
                stored == k \in DOMAIN quizzes /\ quizzes[k].class_id = c
                entry == embedded(k)
            IN  /\ listed <=> stored
                /\ listed =>
                      /\ {"start_date", "duration", "questions"} \subseteq DOMAIN entry
                      /\ entry.start_date = quizzes[k].start_date
                      /\ entry.duration = quizzes[k].duration
                      /\ entry.questions = quizzes[k].questions

\* C27: a submit request that wrote a StudentResponse or a StudentResult wrote
\* it under the id of its authenticated caller.
C27_RecordsCarryCaller ==
    \A r \in Slots :
        reqs[r].wrote >= 1 => reqs[r].student_id = reqs[r].caller.id

\* C28: a view answers with the quiz, and an update or delete request changes
\* the Quiz collection, only when class_id of the quiz is the classId of the
\* path.
C28_QuizOfNamedClass ==
    /\ (resp.op = "view" /\ resp.kind = "Success") => resp.quiz.class_id = resp.classId
    /\ (quizReq.op \in {"patch", "delete"} /\ quizReq.pc # "idle"
            /\ quizzes # quizReq.before[1]) =>
          quizReq.before[1][quizReq.quizId].class_id = quizReq.classId

\* C29: a submit request that wrote a StudentResponse or a StudentResult was
\* made by a student who is in the students list of the class of the quiz.
C29_SubmitterIsMember ==
    \A r \in Slots :
        reqs[r].wrote >= 1 =>
            /\ reqs[r].quiz.class_id \in DOMAIN classes
            /\ Includes(classes[reqs[r].quiz.class_id].students, reqs[r].caller.id)

\* C30: once a submit request for (student, quiz) has ended with the
\* StudentResponse stored and no StudentResult (the write of the result
\* failed), no step creates a StudentResult for the pair.
C30_OrphanStaysOrphan ==
    [][\A s \in Students, k \in QuizIds :
          (<<s, k>> \in committed /\ CountResults(s, k) = 0)
              => Cardinality({i \in 1..Len(studentResults') :
                                /\ studentResults'[i].student_id = s
                                /\ studentResults'[i].quiz_id = k}) = 0]_vars

====
